---- MODULE Spec2Model ----
(***************************************************************************)
(* Model of the Twilio webhook relay: the in-memory call_data_store, the   *)
(* outbound call initiators, the voice greeting / IVR digit webhooks and   *)
(* the inbound SMS webhooks (main.py and routes/sms_routes.py variants).   *)
(*                                                                         *)
(* Every handler is one action: the handlers are coroutines on a single    *)
(* event loop, and the only state they share is call_data_store.           *)
(* External collaborators (Twilio REST, ElevenLabs, Langflow) and library  *)
(* calls that may raise are inputs of the action: an outcome chosen by \E. *)
(* At most one library fault is injected per request; the code that runs   *)
(* inside an except clause is taken not to raise again.                    *)
(*                                                                         *)
(* Strings built by f-strings are modelled as tuples of their parts.       *)
(* uuid.uuid4() is modelled as a counter: ids are fresh, and a webhook can *)
(* only name an id that was issued, or the id UnknownId that is never      *)
(* issued (a uuid4 cannot be guessed before it is generated).              *)
(***************************************************************************)
EXTENDS Integers, Sequences, FiniteSets, TLC

\* ---------------------------------------------------------------- bounds
MaxCalls == 2      \* call ids (uuid4) generated by the initiators
MaxTasks == 2      \* webhook requests followed step by step (StepSpec)

\* ------------------------------------------------------------ input sets
None == "<None>"                        \* Python None (where a str is expected)
NoUrl == <<>>                           \* Python None (where a URL is expected)
UnknownId == 0                          \* a call id no initiator issued
Texts == {"Hello there", "Bye"}         \* message bodies
Phones == {"+15551234567", "5551234567"}
BaseUrl == "http://host"                \* str(request.base_url).rstrip("/")
Sids == {"CA1", "CA2"}                  \* call sids the provider answers with
FileNames == {"f.mp3"}                  \* f"{uuid.uuid4()}.mp3"

\* a prefix check that accepts every number
StartsWithPlus_Any(p) == TRUE

\* phone_number.startswith("+")
StartsWithPlus(p) == p \in {"+15551234567", "+2013905648"}

VARIABLES
  call_data_store,     \* sms_routes.call_data_store: call id -> context
  twilio_client,       \* config.twilio_client is set
  TWILIO_PHONE_NUMBER, \* config.TWILIO_PHONE_NUMBER (None when unset)
  ELEVENLABS_API_KEY,  \* config.ELEVENLABS_API_KEY is set
  nextId,              \* next call id uuid4 will return
  last,                \* the request handled last and what it did
  initiated,           \* history: call id -> message and number of the
                       \* /call/send request that issued it, kept until
                       \* the first digit pass for the id
  digitPassed,         \* history: issued ids with a digit pass that ran
                       \* to the handler's return statement (line 217)
  tasks,               \* the event loop's handler coroutines that are
                       \* followed step by step: position and locals
  running              \* the task that holds the event loop (0: none)

vars == <<call_data_store, twilio_client, TWILIO_PHONE_NUMBER,
          ELEVENLABS_API_KEY, nextId, last, initiated, digitPassed,
          tasks, running>>

config == <<twilio_client, TWILIO_PHONE_NUMBER, ELEVENLABS_API_KEY>>
history == <<initiated, digitPassed>>
loop == <<tasks, running>>

\* --------------------------------------------------------- TwiML documents
Prosody(t) ==
  <<"<speak><prosody rate='medium' pitch='high' volume='medium'>", t,
    "</prosody></speak>">>

Say(text, voice) == [verb |-> "Say", text |-> text, voice |-> voice]
Play(url) == [verb |-> "Play", url |-> url]
Pause(n) == [verb |-> "Pause", length |-> n]
Hangup == [verb |-> "Hangup"]
Gather(n, t, action, method, children) ==
  [verb |-> "Gather", num_digits |-> n, timeout |-> t, action |-> action,
   method |-> method, children |-> children]
Message(body) == [verb |-> "Message", body |-> body]

\* a menu action that leads back to the greeting
InputUrl_Greeting(call_id) == <<"/webhook/voice/call/", call_id>>

InputUrl(call_id) == <<"/webhook/voice/input/", call_id>>

\* a callback URL that does not carry the id
CallUrl_NoId(base, call_id) == <<base, "/webhook/voice/call/", UnknownId>>

CallUrl(base, call_id) == <<base, "/webhook/voice/call/", call_id>>
AudioUrl(base, filename) == <<base, "/audio/", filename>>

\* an error answer that leaves the call open
VoiceErrorResponse_NoHangup ==
  <<Say("Sorry, there was an error. Goodbye!", "Polly.Emma")>>

\* the except clause of both voice webhooks
VoiceErrorResponse ==
  <<Say("Sorry, there was an error. Goodbye!", "Polly.Emma"), Hangup>>

\* the shape of `last` when no request has been handled
NoRequest ==
  [op |-> "none", call_id |-> UnknownId, req |-> <<>>, status |-> 0,
   body |-> <<>>, raised |-> FALSE, lookup |-> "none", ctx |-> None,
   synth |-> <<>>, placed |-> <<>>, forwarded |-> <<>>, put |-> <<>>]

\* ------------------------------------------------------------------- Init
Init ==
  /\ call_data_store = <<>>
  /\ twilio_client \in BOOLEAN
  /\ TWILIO_PHONE_NUMBER \in {None, "+15550009999"}
  /\ ELEVENLABS_API_KEY \in BOOLEAN
  /\ nextId = 1
  /\ last = NoRequest
  /\ initiated = <<>>
  /\ digitPassed = {}
  /\ tasks = <<>>
  /\ running = 0

\* ids a webhook request can carry
KnownIds == (1 .. (nextId - 1)) \cup {UnknownId}

\* an id generator that hands out the id it handed out last
uuid4_Reused == IF nextId > 1 THEN nextId - 1 ELSE nextId

\* str(uuid.uuid4()): an id no earlier call of the generator returned
uuid4 == nextId

\* a put that rebinds the dict to one holding the new entry only
DictPut_Replace(d, k, v) == [x \in {k} |-> v]

\* d[k] = v added to a Python dict
DictPut(d, k, v) == [x \in (DOMAIN d) \cup {k} |-> IF x = k THEN v ELSE d[x]]
\* del d[k]
DictDel(d, k) == [x \in (DOMAIN d) \ {k} |-> d[x]]

\* ------------------------------------------- utils/elevenlabs.py (config.py)
SynthOutcomes == {"ok", "non200", "transport", "save_error"}

\* a synthesis that returns the URL although the file could not be saved
generate_elevenlabs_audio_UnsavedUrl(text, base, outcome, filename) ==
  IF ~ELEVENLABS_API_KEY
    THEN [url |-> NoUrl, text |-> text, requested |-> FALSE, named |-> FALSE,
          outcome |-> "no_key"]
    ELSE IF outcome \in {"ok", "save_error"}
      THEN [url |-> AudioUrl(base, filename), text |-> text,
            requested |-> TRUE, named |-> TRUE, outcome |-> outcome]
      ELSE [url |-> NoUrl, text |-> text, requested |-> TRUE,
            named |-> FALSE, outcome |-> outcome]

\* generate_elevenlabs_audio(text, request) when the provider / file system
\* behaves as `outcome`: the URL returned (None on every failure), whether an
\* HTTP request was made, and whether uuid4 named a file.
generate_elevenlabs_audio(text, base, outcome, filename) ==
  IF ~ELEVENLABS_API_KEY
    THEN [url |-> NoUrl, text |-> text, requested |-> FALSE, named |-> FALSE,
          outcome |-> "no_key"]
    ELSE IF outcome = "ok"
      THEN [url |-> AudioUrl(base, filename), text |-> text,
            requested |-> TRUE, named |-> TRUE, outcome |-> outcome]
      ELSE [url |-> NoUrl, text |-> text, requested |-> TRUE,
            named |-> (outcome = "save_error"), outcome |-> outcome]

\* -------------------------------------------- routes/voice_routes.py: IVR
\* Gather + say + no-input message + hangup (lines 126-146)
IvrMenu(call_id) ==
  << Gather(1, 10, InputUrl(call_id), "POST",
        <<Say(Prosody("Press 1 to end the call, or press 2 for a special message."),
              "Polly.Emma")>>),
     Say(Prosody("I didn't receive any input. Goodbye!"), "Polly.Emma"),
     Hangup >>

\* lines 114-124: play the synthesized audio, or say the text
Playback(audio_url, sms_body) ==
  IF audio_url # NoUrl
    THEN <<Play(audio_url), Pause(1)>>
    ELSE <<Say(Prosody(sms_body), "Polly.Emma"), Pause(1)>>

\* a not-found answer that goes on to the menu instead of hanging up
CallNotFoundResponse_Menu ==
  <<Say("Sorry, there was an error processing your call.", "Polly.Emma")>>
    \o IvrMenu(UnknownId)

\* lines 99-104
CallNotFoundResponse ==
  <<Say("Sorry, there was an error processing your call.", "Polly.Emma"),
    Hangup>>

VoiceFaults == {"none", "build"}

\* a greeting that takes the context out of the store
\* (call_data_store.pop(call_id) instead of call_data_store[call_id])
handle_voice_call_webhook_Pop(call_id, outcome, filename, fault) ==
  LET hit == call_id \in DOMAIN call_data_store
      call_data == IF hit THEN call_data_store[call_id] ELSE None
      audio == generate_elevenlabs_audio(call_data.sms_body, BaseUrl,
                                         outcome, filename)
      doc == IF ~hit THEN CallNotFoundResponse
             ELSE Playback(audio.url, call_data.sms_body) \o IvrMenu(call_id)
  IN
  /\ last' = [NoRequest EXCEPT
        !.op = "voice_call", !.call_id = call_id, !.status = 200,
        !.lookup = IF hit THEN "hit" ELSE "miss",
        !.ctx = call_data,
        !.synth = IF hit THEN <<audio>> ELSE <<>>,
        !.raised = (fault = "build"),
        !.body = IF fault = "build" THEN VoiceErrorResponse ELSE doc]
  /\ call_data_store' = IF hit THEN DictDel(call_data_store, call_id)
                        ELSE call_data_store
  /\ UNCHANGED <<config, nextId, history>>

\* GET/POST /webhook/voice/call/{call_id}
handle_voice_call_webhook(call_id, outcome, filename, fault) ==
  LET hit == call_id \in DOMAIN call_data_store
      call_data == IF hit THEN call_data_store[call_id] ELSE None
      audio == generate_elevenlabs_audio(call_data.sms_body, BaseUrl,
                                         outcome, filename)
      doc == IF ~hit THEN CallNotFoundResponse
             ELSE Playback(audio.url, call_data.sms_body) \o IvrMenu(call_id)
  IN
  /\ last' = [NoRequest EXCEPT
        !.op = "voice_call", !.call_id = call_id, !.status = 200,
        !.lookup = IF hit THEN "hit" ELSE "miss",
        !.ctx = call_data,
        !.synth = IF hit THEN <<audio>> ELSE <<>>,
        !.raised = (fault = "build"),
        !.body = IF fault = "build" THEN VoiceErrorResponse ELSE doc]
  /\ UNCHANGED <<call_data_store, config, nextId, history>>

\* lines 172-179: where the digits come from
DigitsOf(method, Digits, query) ==
  IF method = "GET"
    THEN (IF query = None THEN "" ELSE query)
    ELSE (IF Digits = None \/ Digits = "" THEN "" ELSE Digits)

\* a decision in which "2" falls through to the first branch
DigitResponse_FallThrough(digits) ==
  IF digits = "1" \/ digits = "2"
    THEN <<Say(Prosody("Goodbye!"), "Polly.Emma"), Hangup>>
  ELSE <<Say(Prosody("Invalid option. Goodbye!"), "Polly.Emma"), Hangup>>

\* lines 183-210
DigitResponse(digits) ==
  IF digits = "1"
    THEN <<Say(Prosody("Goodbye!"), "Polly.Emma"), Hangup>>
  ELSE IF digits = "2"
    THEN <<Say(Prosody("Thanks for picking up the phone dude!"), "Polly.Emma"),
           Pause(1),
           Say(Prosody("Have a great day!"), "Polly.Emma"),
           Hangup>>
  ELSE <<Say(Prosody("Invalid option. Goodbye!"), "Polly.Emma"), Hangup>>

\* a clean-up that forgets the delete
CleanUp_NoDelete(store, call_id) == store

\* a clean-up that empties the whole store (call_data_store.clear())
CleanUp_Clear(store, call_id) == <<>>

\* lines 212-215
CleanUp(store, call_id) ==
  IF call_id \in DOMAIN store THEN DictDel(store, call_id) ELSE store

\* the history forgets an id at its first digit pass
CleanUpHistory(h, call_id) == [x \in (DOMAIN h) \ {call_id} |-> h[x]]

DigitValues == {None, "", "1", "2", "3"}
Methods == {"GET", "POST"}
\* requests: every value on the channel the method reads with nothing on the
\* other channel, and requests with a "1" on the channel that is not read
DigitRequests ==
  {r \in [method : Methods, Digits : DigitValues, query : DigitValues] :
     IF r.method = "GET"
       THEN /\ r.query # ""
            /\ r.Digits = None \/ (r.Digits = "1" /\ r.query \in {None, "2"})
       ELSE r.query = None \/ (r.query = "1" /\ r.Digits \in {None, "2"})}

\* a digit handler that deletes without the membership test: for an id that
\* is not in the store `del` raises KeyError and the except clause answers
handle_voice_input_webhook_NoTest(call_id, method, Digits, query, fault) ==
  LET digits == DigitsOf(method, Digits, query)
      fails == fault = "build" \/ call_id \notin DOMAIN call_data_store
  IN
  /\ last' = [NoRequest EXCEPT
        !.op = "voice_input", !.call_id = call_id, !.status = 200,
        !.req = [method |-> method, Digits |-> Digits, query |-> query,
                 fault |-> fault],
        !.raised = fails,
        !.body = IF fails THEN VoiceErrorResponse ELSE DigitResponse(digits)]
  /\ call_data_store' = IF fails THEN call_data_store
                        ELSE DictDel(call_data_store, call_id)
  /\ digitPassed' = IF fails \/ call_id = UnknownId
                    THEN digitPassed
                    ELSE digitPassed \cup {call_id}
  /\ initiated' = IF fails THEN initiated
                  ELSE CleanUpHistory(initiated, call_id)
  /\ UNCHANGED <<config, nextId>>

\* GET/POST /webhook/voice/input/{call_id}
handle_voice_input_webhook(call_id, method, Digits, query, fault) ==
  LET digits == DigitsOf(method, Digits, query) IN
  /\ last' = [NoRequest EXCEPT
        !.op = "voice_input", !.call_id = call_id, !.status = 200,
        !.req = [method |-> method, Digits |-> Digits, query |-> query,
                 fault |-> fault],
        !.raised = (fault = "build"),
        !.body = IF fault = "build" THEN VoiceErrorResponse
                 ELSE DigitResponse(digits)]
  /\ call_data_store' = IF fault = "build" THEN call_data_store
                        ELSE CleanUp(call_data_store, call_id)
  /\ digitPassed' = IF fault = "build" \/ call_id = UnknownId
                    THEN digitPassed
                    ELSE digitPassed \cup {call_id}
  /\ initiated' = IF fault = "build" THEN initiated
                  ELSE CleanUpHistory(initiated, call_id)
  /\ UNCHANGED <<config, nextId>>

\* ------------------------------------- routes/voice_routes.py: /call/send
\* a check that forgets the originating number
Configured_ClientOnly == twilio_client

\* `twilio_client and TWILIO_PHONE_NUMBER`
Configured == twilio_client /\ TWILIO_PHONE_NUMBER # None

\* a context with the two numbers exchanged
ApiContext_Swapped(message, phone_number, call_id) ==
  [sms_body |-> message, from_number |-> phone_number,
   to_number |-> TWILIO_PHONE_NUMBER, message_sid |-> <<"api_call_", call_id>>]

\* lines 44-49
ApiContext(message, phone_number, call_id) ==
  [sms_body |-> message, from_number |-> TWILIO_PHONE_NUMBER,
   to_number |-> phone_number, message_sid |-> <<"api_call_", call_id>>]

\* an initiator that files the context only once the call is placed
send_call_with_message_PutAfterCreate(message, phone_number, sid) ==
  IF ~Configured
    THEN /\ last' = [NoRequest EXCEPT
                !.op = "call_send", !.status = 500, !.raised = TRUE,
                !.req = [message |-> message, phone_number |-> phone_number],
                !.body = [detail |-> <<"Twilio client not configured">>]]
         /\ UNCHANGED <<call_data_store, config, nextId, history>>
  ELSE IF ~StartsWithPlus(phone_number)
    THEN /\ last' = [NoRequest EXCEPT
                !.op = "call_send", !.status = 400, !.raised = TRUE,
                !.req = [message |-> message, phone_number |-> phone_number],
                !.body = [detail |->
                  <<"Phone number must include country code (e.g., +1234567890)">>]]
         /\ UNCHANGED <<call_data_store, config, nextId, history>>
  ELSE
    LET call_id == nextId
        ctx == ApiContext(message, phone_number, call_id)
        create == [url |-> CallUrl(BaseUrl, call_id), twiml |-> <<>>,
                   to |-> phone_number, from_ |-> TWILIO_PHONE_NUMBER,
                   sid |-> sid]
        callOk == sid # None
    IN
    /\ nextId <= MaxCalls
    /\ call_data_store' = IF callOk
                            THEN DictPut(call_data_store, call_id, ctx)
                            ELSE call_data_store
    /\ initiated' = IF callOk
                      THEN DictPut(initiated, call_id,
                                   [text |-> message, to |-> phone_number])
                      ELSE initiated
    /\ nextId' = nextId + 1
    /\ last' = [NoRequest EXCEPT
          !.op = "call_send", !.call_id = call_id,
          !.req = [message |-> message, phone_number |-> phone_number],
          !.put = <<call_id>>,
          !.placed = <<create>>,
          !.raised = ~callOk,
          !.status = IF callOk THEN 200 ELSE 500,
          !.body = IF callOk
             THEN [success |-> TRUE, call_sid |-> sid,
                   call_id |-> call_id,
                   message |-> "Call initiated successfully",
                   phone_number |-> phone_number]
             ELSE [detail |-> <<"Failed to initiate call: ", "error">>]]
    /\ UNCHANGED <<config, digitPassed>>

\* POST /call/send
send_call_with_message(message, phone_number, sid) ==
  IF ~Configured
    THEN /\ last' = [NoRequest EXCEPT
                !.op = "call_send", !.status = 500, !.raised = TRUE,
                !.req = [message |-> message, phone_number |-> phone_number],
                !.body = [detail |-> <<"Twilio client not configured">>]]
         /\ UNCHANGED <<call_data_store, config, nextId, history>>
  ELSE IF ~StartsWithPlus(phone_number)
    THEN /\ last' = [NoRequest EXCEPT
                !.op = "call_send", !.status = 400, !.raised = TRUE,
                !.req = [message |-> message, phone_number |-> phone_number],
                !.body = [detail |->
                  <<"Phone number must include country code (e.g., +1234567890)">>]]
         /\ UNCHANGED <<call_data_store, config, nextId, history>>
  ELSE
    LET call_id == uuid4
        ctx == ApiContext(message, phone_number, call_id)
        create == [url |-> CallUrl(BaseUrl, call_id), twiml |-> <<>>,
                   to |-> phone_number, from_ |-> TWILIO_PHONE_NUMBER,
                   sid |-> sid]
        callOk == sid # None
    IN
    /\ nextId <= MaxCalls
    /\ call_data_store' = DictPut(call_data_store, call_id, ctx)
    /\ initiated' = DictPut(initiated, call_id,
                            [text |-> message, to |-> phone_number])
    /\ nextId' = nextId + 1
    /\ last' = [NoRequest EXCEPT
          !.op = "call_send", !.call_id = call_id,
          !.req = [message |-> message, phone_number |-> phone_number],
          !.put = <<call_id>>,
          !.placed = <<create>>,
          !.raised = ~callOk,
          !.status = IF callOk THEN 200 ELSE 500,
          !.body = IF callOk
             THEN [success |-> TRUE, call_sid |-> sid,
                   call_id |-> call_id,
                   message |-> "Call initiated successfully",
                   phone_number |-> phone_number]
             ELSE [detail |-> <<"Failed to initiate call: ", "error">>]]
    /\ UNCHANGED <<config, digitPassed>>

\* ------------------------------------ routes/sms_routes.py: /webhook/test
DEFAULT_TEST_PHONE_NUMBER == "+2013905648"
DefaultTestMessage == "Hello, this is a test call from the webhook endpoint."

\* dict.get(key, default)
Get(d, key, default) == IF key \in DOMAIN d THEN d[key] ELSE default

\* message_text.strip() == ""
IsBlank(t) == t \in {"", " "}

\* request bodies: the raw text, whether json.loads parses it, and the dict
\* it returns
TestBodies ==
  { [text |-> "", parses |-> FALSE, json |-> <<>>],
    [text |-> " ", parses |-> FALSE, json |-> <<>>],
    [text |-> "{message,phone_number}", parses |-> TRUE,
     json |-> [message |-> "Hello there", phone_number |-> "5551234567"]],
    [text |-> "{text,number}", parses |-> TRUE,
     json |-> [text |-> "Hello there", number |-> "5551234567"]] }

\* lines 49-72
TestMessageText(body) ==
  IF ~body.parses THEN body.text
  ELSE Get(body.json, "message", Get(body.json, "text", body.text))

TestPhoneNumber(body) ==
  IF ~body.parses THEN DEFAULT_TEST_PHONE_NUMBER
  ELSE Get(body.json, "phone_number",
           Get(body.json, "number", DEFAULT_TEST_PHONE_NUMBER))

\* lines 96-101
TestContext(message_text, phone_number, call_id) ==
  [sms_body |-> message_text, from_number |-> TWILIO_PHONE_NUMBER,
   to_number |-> phone_number, message_sid |-> <<"webhook_test_", call_id>>]

\* an initiator whose call id is not fresh (a fixed id instead of uuid4)
webhook_test_FixedId(body, sid) ==
  LET parsed == TestMessageText(body)
      message_text == IF IsBlank(parsed) THEN DefaultTestMessage ELSE parsed
      phone_number == TestPhoneNumber(body)
      call_id == 1
      create == [url |-> CallUrl(BaseUrl, call_id), twiml |-> <<>>,
                 to |-> phone_number, from_ |-> TWILIO_PHONE_NUMBER,
                 sid |-> sid]
  IN
  IF Configured
    THEN /\ nextId <= MaxCalls
         /\ call_data_store' = DictPut(call_data_store, call_id,
                 TestContext(message_text, phone_number, call_id))
         /\ nextId' = nextId + 1
         /\ last' = [NoRequest EXCEPT
               !.op = "webhook_test", !.call_id = call_id, !.status = 200,
               !.req = body, !.put = <<call_id>>, !.placed = <<create>>,
               !.raised = (sid = None),
               !.body = IF sid # None
                 THEN <<"Call initiated successfully! Call SID: ", sid,
                        "\nCalling ", phone_number, " with message: ",
                        message_text>>
                 ELSE <<"Error making call: ", "error">>]
         /\ UNCHANGED <<config, history>>
    ELSE /\ last' = [NoRequest EXCEPT
               !.op = "webhook_test", !.status = 200, !.req = body,
               !.body = <<"Twilio not configured. Would have called ",
                          phone_number, " with message: ", message_text>>]
         /\ UNCHANGED <<call_data_store, config, nextId, history>>

\* POST /webhook/test (the first handle_sms_webhook of routes/sms_routes.py)
webhook_test(body, sid) ==
  LET parsed == TestMessageText(body)
      message_text == IF IsBlank(parsed) THEN DefaultTestMessage ELSE parsed
      phone_number == TestPhoneNumber(body)
      call_id == uuid4
      create == [url |-> CallUrl(BaseUrl, call_id), twiml |-> <<>>,
                 to |-> phone_number, from_ |-> TWILIO_PHONE_NUMBER,
                 sid |-> sid]
  IN
  IF Configured
    THEN /\ nextId <= MaxCalls
         /\ call_data_store' = DictPut(call_data_store, call_id,
                 TestContext(message_text, phone_number, call_id))
         /\ nextId' = nextId + 1
         /\ last' = [NoRequest EXCEPT
               !.op = "webhook_test", !.call_id = call_id, !.status = 200,
               !.req = body, !.put = <<call_id>>, !.placed = <<create>>,
               !.raised = (sid = None),
               !.body = IF sid # None
                 THEN <<"Call initiated successfully! Call SID: ", sid,
                        "\nCalling ", phone_number, " with message: ",
                        message_text>>
                 ELSE <<"Error making call: ", "error">>]
         /\ UNCHANGED <<config, history>>
    ELSE /\ last' = [NoRequest EXCEPT
               !.op = "webhook_test", !.status = 200, !.req = body,
               !.body = <<"Twilio not configured. Would have called ",
                          phone_number, " with message: ", message_text>>]
         /\ UNCHANGED <<call_data_store, config, nextId, history>>

\* --------------------------------------------- /webhook/sms (both variants)
NumMediaValues == {None, "1", "abc"}
SmsFaults == {"none", "build", "serialize"}
Senders == {"+15551234567"}

\* int(NumMedia) raises ValueError
IntRaises(NumMedia) == NumMedia \notin {"0", "1"}

\* a media check that guards the conversion
MediaCheckRaises_Guarded(NumMedia) == FALSE

\* `if NumMedia and int(NumMedia) > 0` raises
MediaCheckRaises(NumMedia) ==
  NumMedia # None /\ NumMedia # "" /\ IntRaises(NumMedia)

\* str(MessagingResponse())
EmptyReply == <<>>

\* main.py lines 90-109: the inline TwiML of the call
CallTwiml(audio_url, Body) ==
  IF audio_url # NoUrl
    THEN <<Play(audio_url), Pause(1)>>
    ELSE <<Say(Prosody(Body), "Polly.Emma"), Pause(1),
           Say(Prosody("Thank you for your message. Goodbye!"), "Polly.Emma")>>

\* an acknowledgment without the call sid
CallingReply_NoSid(sid) ==
  <<Message(<<"Thanks for your message! I'm calling you now to read it back.">>)>>

\* main.py lines 121-124
CallingReply(sid) ==
  <<Message(<<"Thanks for your message! I'm calling you now to read it back. Call SID: ",
              sid>>)>>
\* main.py lines 129-132
CallFailedReply(Body) ==
  <<Message(<<"Received your message: '", Body,
              "'. Sorry, I couldn't call you back due to an error.">>)>>
\* main.py lines 136-139
NotConfiguredReply(Body) ==
  <<Message(<<"Received your message: '", Body,
              "'. Twilio calling is not configured.">>)>>

\* POST /webhook/sms of main.py: call the sender back
handle_sms_webhook(From, Body, NumMedia, outcome, filename, sid, fault) ==
  LET audio == generate_elevenlabs_audio(Body, BaseUrl, outcome, filename)
      create == [url |-> NoUrl, twiml |-> CallTwiml(audio.url, Body),
                 to |-> From, from_ |-> TWILIO_PHONE_NUMBER, sid |-> sid]
      early == MediaCheckRaises(NumMedia)
      inner == Configured /\ ~early
      reply ==
        IF early THEN EmptyReply
        ELSE IF Configured
          THEN (IF sid = None \/ fault = "build"
                  THEN CallFailedReply(Body) ELSE CallingReply(sid))
          ELSE (IF fault = "build" THEN EmptyReply
                  ELSE NotConfiguredReply(Body))
  IN
  /\ last' = [NoRequest EXCEPT
        !.op = "sms_call_back", !.status = 200,
        !.req = [From |-> From, Body |-> Body, NumMedia |-> NumMedia,
                 fault |-> fault],
        !.synth = IF inner THEN <<audio>> ELSE <<>>,
        !.placed = IF inner THEN <<create>> ELSE <<>>,
        !.raised = early \/ fault = "serialize"
                     \/ (~Configured /\ fault = "build"),
        !.body = IF fault = "serialize" THEN EmptyReply ELSE reply]
  /\ UNCHANGED <<call_data_store, config, nextId, history>>

\* routes/sms_routes.py lines 183-186
ProcessedReply(Body) ==
  <<Message(<<"Thanks for your message! I've received and processed: '",
              Body, "'">>)>>
\* routes/sms_routes.py lines 191-194
ForwardFailedReply(Body) ==
  <<Message(<<"Received your message: '", Body,
              "'. Sorry, there was an error processing it.">>)>>

\* what client.post(LANGFLOW_WEBHOOK_URL, ..., timeout=30.0) does
PostOutcomes == {"200", "500", "timeout", "error"}
PostRaises(post) == post \in {"timeout", "error"}

\* a forward that posts a second time when the first post raises
sms_routes_handle_sms_webhook_Retry(From, Body, NumMedia, post, fault) ==
  LET early == MediaCheckRaises(NumMedia)
      request == [json |-> [text |-> Body, phone_number |-> From],
                  timeout |-> 30, outcome |-> post]
      reply ==
        IF early THEN EmptyReply
        ELSE IF PostRaises(post) \/ fault = "build"
          THEN ForwardFailedReply(Body) ELSE ProcessedReply(Body)
  IN
  /\ last' = [NoRequest EXCEPT
        !.op = "sms_forward", !.status = 200,
        !.req = [From |-> From, Body |-> Body, NumMedia |-> NumMedia,
                 fault |-> fault],
        !.forwarded = IF early THEN <<>>
                      ELSE IF PostRaises(post) THEN <<request, request>>
                      ELSE <<request>>,
        !.raised = early \/ fault = "serialize",
        !.body = IF fault = "serialize" THEN EmptyReply ELSE reply]
  /\ UNCHANGED <<call_data_store, config, nextId, history>>

\* POST /webhook/sms of routes/sms_routes.py: forward to Langflow
sms_routes_handle_sms_webhook(From, Body, NumMedia, post, fault) ==
  LET early == MediaCheckRaises(NumMedia)
      reply ==
        IF early THEN EmptyReply
        ELSE IF PostRaises(post) \/ fault = "build"
          THEN ForwardFailedReply(Body) ELSE ProcessedReply(Body)
  IN
  /\ last' = [NoRequest EXCEPT
        !.op = "sms_forward", !.status = 200,
        !.req = [From |-> From, Body |-> Body, NumMedia |-> NumMedia,
                 fault |-> fault],
        !.forwarded = IF early THEN <<>>
                      ELSE <<[json |-> [text |-> Body, phone_number |-> From],
                              timeout |-> 30, outcome |-> post]>>,
        !.raised = early \/ fault = "serialize",
        !.body = IF fault = "serialize" THEN EmptyReply ELSE reply]
  /\ UNCHANGED <<call_data_store, config, nextId, history>>

\* POST /webhook/sms/status: logged only, always the empty reply
handle_sms_status_webhook ==
  /\ last' = [NoRequest EXCEPT !.op = "sms_status", !.status = 200,
                               !.body = <<>>]
  /\ UNCHANGED <<call_data_store, config, nextId, history>>

\* POST /webhook/voice of main.py: the generic greeting
handle_voice_webhook ==
  /\ last' = [NoRequest EXCEPT !.op = "voice", !.status = 200,
        !.body = <<Say("Hello! This is a voice webhook response.", "alice")>>]
  /\ UNCHANGED <<call_data_store, config, nextId, history>>

\* ------------------------------------------------------------------- Next
\* a handler taken as a whole runs from its first line to its return with no
\* other coroutine in between; no task is followed step by step
VoiceCall ==
  \E call_id \in KnownIds, outcome \in SynthOutcomes, filename \in FileNames,
     fault \in VoiceFaults :
     /\ handle_voice_call_webhook(call_id, outcome, filename, fault)
     /\ UNCHANGED loop

VoiceInput ==
  \E call_id \in KnownIds, r \in DigitRequests, fault \in VoiceFaults :
     /\ fault # "none" => r.query = None /\ r.Digits \in {None, "1"}
     /\ handle_voice_input_webhook(call_id, r.method, r.Digits, r.query, fault)
     /\ UNCHANGED loop

CallSend ==
  \E message \in Texts, phone_number \in Phones, sid \in Sids \cup {None} :
     /\ send_call_with_message(message, phone_number, sid)
     /\ UNCHANGED loop

WebhookTest ==
  \E body \in TestBodies, sid \in Sids \cup {None} :
     /\ webhook_test(body, sid)
     /\ UNCHANGED loop

\* a request deviates from the plain one in one respect: its text, its media
\* count, the synthesis, the placement or a fault
SmsCallBack ==
  \E From \in Senders, Body \in Texts, NumMedia \in NumMediaValues,
     outcome \in {"ok", "non200"}, filename \in FileNames,
     sid \in Sids \cup {None}, fault \in SmsFaults :
     /\ NumMedia # None => fault = "none" /\ outcome = "non200" /\ sid = "CA1"
     /\ fault # "none" => outcome = "non200"
     /\ Body # "Hello there" =>
           NumMedia = None /\ fault = "none" /\ outcome = "ok" /\ sid = "CA1"
     /\ handle_sms_webhook(From, Body, NumMedia, outcome, filename, sid, fault)
     /\ UNCHANGED loop

SmsForward ==
  \E From \in Senders, Body \in Texts, NumMedia \in NumMediaValues,
     post \in PostOutcomes, fault \in SmsFaults :
     /\ NumMedia # None => fault = "none" /\ post = "200"
     /\ fault # "none" => post \in {"200", "timeout"}
     /\ Body # "Hello there" =>
           NumMedia = None /\ fault = "none" /\ post \in {"200", "timeout"}
     /\ sms_routes_handle_sms_webhook(From, Body, NumMedia, post, fault)
     /\ UNCHANGED loop

SmsStatus == handle_sms_status_webhook /\ UNCHANGED loop

Voice == handle_voice_webhook /\ UNCHANGED loop

Next ==
  \/ CallSend
  \/ WebhookTest
  \/ VoiceCall
  \/ VoiceInput
  \/ SmsCallBack
  \/ SmsForward
  \/ SmsStatus
  \/ Voice

Spec == Init /\ [][Next]_vars

\* ------------------------------------------------- the handlers, by step
\* The voice handlers are coroutines of one event loop (uvicorn.run, main.py
\* line 258): a coroutine keeps the loop from one await to the next, and the
\* statements between two awaits run with no other coroutine in between.
\* A task is a handler coroutine: `pc` is the statement it executes next,
\* `sms_body`, `synth` and `body` are its locals (the text it read, what it
\* asked the synthesis for, the response it built). Two fields are history: `stored` is the text the store held for
\* the id when the request arrived (None: no entry), `gone` says that the
\* entry was no longer in the store when the greeting built its response.
NewTask(kind, call_id, pc, Digits, fault) ==
  [kind |-> kind, call_id |-> call_id, pc |-> pc, Digits |-> Digits,
   fault |-> fault,
   stored |-> IF call_id \in DOMAIN call_data_store
                THEN call_data_store[call_id].sms_body ELSE None,
   sms_body |-> None, synth |-> <<>>, body |-> <<>>, raised |-> FALSE,
   gone |-> FALSE]

\* an event loop that may switch coroutines after any statement (threads)
Suspends_Anywhere(kind, pc) == TRUE

\* the statements at which a coroutine awaits: the greeting at line 112
\* (await generate_elevenlabs_audio), the digit handler nowhere
Suspends(kind, pc) == kind = "greeting" /\ pc = "synth"

\* the task that holds the loop after task i moved to t
Holder(i, t) == IF t.pc = "done" \/ Suspends(t.kind, t.pc) THEN 0 ELSE i

Runnable(i, kind, pc) ==
  /\ running \in {0, i}
  /\ tasks[i].kind = kind
  /\ tasks[i].pc = pc

Step(i, t) ==
  /\ tasks' = [tasks EXCEPT ![i] = t]
  /\ running' = Holder(i, t)

\* the except clauses (lines 150-155 and 219-224)
Raise(t) == [t EXCEPT !.pc = "done", !.raised = TRUE,
                      !.body = VoiceErrorResponse]

\* a request arrives and its handler coroutine is created
StartGreeting(call_id, fault) ==
  /\ running = 0
  /\ Len(tasks) < MaxTasks
  /\ tasks' = Append(tasks, NewTask("greeting", call_id, "lookup", None, fault))
  /\ UNCHANGED <<call_data_store, config, nextId, last, history, running>>

StartDigit(call_id, Digits, fault) ==
  /\ running = 0
  /\ Len(tasks) < MaxTasks
  /\ tasks' = Append(tasks, NewTask("digit", call_id, "respond", Digits, fault))
  /\ UNCHANGED <<call_data_store, config, nextId, last, history, running>>

\* lines 96-104: `if call_id not in call_data_store`
greeting_lookup(i) ==
  LET t == tasks[i] IN
  /\ Runnable(i, "greeting", "lookup")
  /\ Step(i, IF t.call_id \in DOMAIN call_data_store
               THEN [t EXCEPT !.pc = "read"]
               ELSE [t EXCEPT !.pc = "done", !.body = CallNotFoundResponse])
  /\ UNCHANGED <<call_data_store, config, nextId, last, history>>

\* lines 106-107: call_data_store[call_id]["sms_body"], KeyError if deleted
greeting_read(i) ==
  LET t == tasks[i] IN
  /\ Runnable(i, "greeting", "read")
  /\ Step(i, IF t.call_id \in DOMAIN call_data_store
               THEN [t EXCEPT !.pc = "synth",
                        !.sms_body = call_data_store[t.call_id].sms_body]
               ELSE Raise(t))
  /\ UNCHANGED <<call_data_store, config, nextId, last, history>>

\* a greeting that looks the text up again when it builds the response
SpokenText_Reread(t) ==
  IF t.call_id \in DOMAIN call_data_store
    THEN call_data_store[t.call_id].sms_body ELSE ""

\* lines 107-124: the local sms_body is what is synthesized and said
SpokenText(t) == t.sms_body

\* lines 112-148: the await returns, the response is built and returned
greeting_respond(i, outcome, filename) ==
  LET t == tasks[i]
      audio == generate_elevenlabs_audio(SpokenText(t), BaseUrl,
                                         outcome, filename)
  IN
  /\ Runnable(i, "greeting", "synth")
  /\ Step(i, IF t.fault = "build" THEN Raise(t)
             ELSE [t EXCEPT !.pc = "done",
                      !.synth = <<audio>>,
                      !.gone = t.call_id \notin DOMAIN call_data_store,
                      !.body = Playback(audio.url, SpokenText(t))
                                 \o IvrMenu(t.call_id)])
  /\ UNCHANGED <<call_data_store, config, nextId, last, history>>

\* lines 172-210: the digits are read and the response is built
digit_respond(i) ==
  LET t == tasks[i] IN
  /\ Runnable(i, "digit", "respond")
  /\ Step(i, IF t.fault = "build" THEN Raise(t)
             ELSE [t EXCEPT !.pc = "member",
                      !.body = DigitResponse(DigitsOf("POST", t.Digits, None))])
  /\ UNCHANGED <<call_data_store, config, nextId, last, history>>

\* lines 213 and 217: `if call_id in call_data_store`, else return
digit_member(i) ==
  LET t == tasks[i]
      hit == t.call_id \in DOMAIN call_data_store
  IN
  /\ Runnable(i, "digit", "member")
  /\ Step(i, [t EXCEPT !.pc = IF hit THEN "del" ELSE "done"])
  /\ digitPassed' = IF hit \/ t.call_id = UnknownId THEN digitPassed
                    ELSE digitPassed \cup {t.call_id}
  /\ initiated' = IF hit THEN initiated
                  ELSE CleanUpHistory(initiated, t.call_id)
  /\ UNCHANGED <<call_data_store, config, nextId, last>>

\* lines 215-217: `del call_data_store[call_id]` (KeyError if the entry is
\* gone), then return
digit_delete(i) ==
  LET t == tasks[i]
      hit == t.call_id \in DOMAIN call_data_store
  IN
  /\ Runnable(i, "digit", "del")
  /\ Step(i, IF hit THEN [t EXCEPT !.pc = "done"] ELSE Raise(t))
  /\ call_data_store' = IF hit THEN DictDel(call_data_store, t.call_id)
                        ELSE call_data_store
  /\ digitPassed' = IF hit THEN digitPassed \cup {t.call_id} ELSE digitPassed
  /\ initiated' = IF hit THEN CleanUpHistory(initiated, t.call_id)
                  ELSE initiated
  /\ UNCHANGED <<config, nextId, last>>

\* StepSpec follows the webhooks of one call, the first /call/send request
\* (what the provider answers is Spec's subject: here it places the call)
StepCallSend ==
  \E message \in Texts :
     /\ running = 0
     /\ KnownIds = {UnknownId}
     /\ send_call_with_message(message, "+15551234567", "CA1")
     /\ UNCHANGED loop

\* the provider sends webhooks for the ids of the callback URLs it was given
StepIds == KnownIds \ {UnknownId}

GreetingArrives ==
  \E call_id \in StepIds, fault \in VoiceFaults : StartGreeting(call_id, fault)

\* a failing request is followed for one digit only
DigitArrives ==
  \E call_id \in StepIds, Digits \in {None, "1", "2"}, fault \in VoiceFaults :
     /\ fault # "none" => Digits = "1"
     /\ StartDigit(call_id, Digits, fault)

GreetingLookup == \E i \in DOMAIN tasks : greeting_lookup(i)
GreetingRead == \E i \in DOMAIN tasks : greeting_read(i)
GreetingRespond ==
  \E i \in DOMAIN tasks, outcome \in {"ok", "non200"}, filename \in FileNames :
     greeting_respond(i, outcome, filename)
DigitRespond == \E i \in DOMAIN tasks : digit_respond(i)
DigitMember == \E i \in DOMAIN tasks : digit_member(i)
DigitDelete == \E i \in DOMAIN tasks : digit_delete(i)

StepNext ==
  \/ StepCallSend
  \/ GreetingArrives
  \/ DigitArrives
  \/ GreetingLookup
  \/ GreetingRead
  \/ GreetingRespond
  \/ DigitRespond
  \/ DigitMember
  \/ DigitDelete

StepSpec == Init /\ [][StepNext]_vars

\* ======================================================================
\* Properties
\* ======================================================================
SayText(t) == [verb |-> "Say", text |-> Prosody(t), voice |-> "Polly.Emma"]
HangupVerb == [verb |-> "Hangup"]
EndsInHangup(doc) == Len(doc) > 0 /\ doc[Len(doc)] = HangupVerb
HasGather(doc) == \E i \in 1 .. Len(doc) : doc[i].verb = "Gather"

\* C1: once a digit pass for a call id has run to its return (digit "1",
\* "2", any other string, or absent), the id is not in the store, in that
\* state and in every later one, and a greeting lookup for it is a miss.
C1_MissAfterDigitPass ==
  /\ \A id \in digitPassed : id \notin DOMAIN call_data_store
  /\ (last.op = "voice_input" /\ ~last.raised)
        => last.call_id \notin DOMAIN call_data_store
  /\ (last.op = "voice_call" /\ last.call_id \in digitPassed)
        => last.lookup = "miss"

C1_Witness ==
  /\ last.op = "voice_call"
  /\ last.call_id \in digitPassed
  /\ call_data_store # <<>>

\* C2: on every exit path of the digit handler, the error path included,
\* the entry of its call id is not in the store when the handler returns.
C2_DeletedOnEveryExit ==
  last.op = "voice_input" => last.call_id \notin DOMAIN call_data_store

\* C3: an id issued by /call/send that has had no digit pass is in the store
\* with the text and destination of its request, and a greeting lookup for it
\* is a hit that yields that text and destination.
C3_LookupBeforeDigitPass ==
  /\ \A id \in DOMAIN initiated :
        /\ id \in DOMAIN call_data_store
        /\ call_data_store[id].sms_body = initiated[id].text
        /\ call_data_store[id].to_number = initiated[id].to
  /\ (last.op = "voice_call" /\ last.call_id \in DOMAIN initiated)
        => /\ last.lookup = "hit"
           /\ last.ctx.sms_body = initiated[last.call_id].text
           /\ last.ctx.to_number = initiated[last.call_id].to

C3_Witness ==
  /\ last.op = "voice_call"
  /\ last.call_id \in DOMAIN initiated
  /\ Cardinality(DOMAIN call_data_store) >= 2
  /\ last.ctx.sms_body = "Bye"

\* the digit a request delivers on the channel its method reads
C4_Digit ==
  IF last.req.method = "GET" THEN last.req.query ELSE last.req.Digits

C4_Goodbye == <<SayText("Goodbye!"), HangupVerb>>
C4_Special ==
  <<SayText("Thanks for picking up the phone dude!"),
    [verb |-> "Pause", length |-> 1],
    SayText("Have a great day!"), HangupVerb>>
C4_Invalid == <<SayText("Invalid option. Goodbye!"), HangupVerb>>

\* C4: the digit decision is a partition: "1" yields goodbye then hangup,
\* "2" the two-part special message then hangup, every other input (empty
\* and absent included) "invalid option" then hangup; exactly one of the
\* three is produced.
C4_DigitPartition ==
  (last.op = "voice_input" /\ ~last.raised) =>
     /\ C4_Digit = "1" => last.body = C4_Goodbye
     /\ C4_Digit = "2" => last.body = C4_Special
     /\ C4_Digit \notin {"1", "2"} => last.body = C4_Invalid
     /\ Cardinality({d \in {C4_Goodbye, C4_Special, C4_Invalid} :
                        d = last.body}) = 1
     /\ EndsInHangup(last.body)

C4_Witness ==
  /\ last.op = "voice_input"
  /\ ~last.raised
  /\ last.req.method = "GET"
  /\ last.req.query = "2"
  /\ last.req.Digits = "1"

\* the part of a greeting that follows the playback element
C5_MenuAfterPlayback(id) ==
  << [verb |-> "Pause", length |-> 1],
     [verb |-> "Gather", num_digits |-> 1, timeout |-> 10,
      action |-> <<"/webhook/voice/input/", id>>, method |-> "POST",
      children |-> <<SayText(
         "Press 1 to end the call, or press 2 for a special message.")>>],
     SayText("I didn't receive any input. Goodbye!"),
     HangupVerb >>

\* C5: when synthesis is unavailable (no key, non-200, transport error,
\* save failure) the greeting for a stored id says the stored text with the
\* provider's voice and then presents the menu; with synthesis it plays the
\* audio and presents the same menu: only the first element differs.
C5_FallbackGreeting ==
  (last.op = "voice_call" /\ last.lookup = "hit" /\ ~last.raised) =>
     /\ Len(last.synth) = 1
     /\ last.synth[1].text = call_data_store[last.call_id].sms_body
     /\ last.synth[1].outcome # "ok" =>
          last.body =
            <<SayText(call_data_store[last.call_id].sms_body)>>
              \o C5_MenuAfterPlayback(last.call_id)
     /\ last.synth[1].outcome = "ok" =>
          last.body =
            <<[verb |-> "Play", url |-> last.synth[1].url]>>
              \o C5_MenuAfterPlayback(last.call_id)

C5_Witness ==
  /\ last.op = "voice_call"
  /\ last.lookup = "hit"
  /\ ~last.raised
  /\ last.synth[1].outcome = "save_error"

\* C6: a greeting for an id that is not in the store is an apology followed
\* by hangup, with no menu and no synthesis attempt.
C6_MissIsTerminal ==
  (last.op = "voice_call" /\ last.lookup = "miss") =>
     /\ last.synth = <<>>
     /\ Len(last.body) = 2
     /\ last.body[1].verb = "Say"
     /\ last.body[1].text \in
          {"Sorry, there was an error processing your call.",
           "Sorry, there was an error. Goodbye!"}
     /\ ~last.raised =>
          last.body[1].text = "Sorry, there was an error processing your call."
     /\ EndsInHangup(last.body)
     /\ ~HasGather(last.body)

C6_Witness ==
  /\ last.op = "voice_call"
  /\ last.lookup = "miss"
  /\ last.call_id = UnknownId
  /\ ELEVENLABS_API_KEY
  /\ call_data_store # <<>>

\* numbers without a leading "+"
C7_NoPlus == {"5551234567"}

\* C7 as stated: every /call/send request whose number lacks the "+" is
\* answered 400, places no call and puts no entry.
C7_BadNumberIs400 ==
  (last.op = "call_send" /\ last.req.phone_number \in C7_NoPlus) =>
     /\ last.status = 400
     /\ last.placed = <<>>
     /\ last.put = <<>>

\* C7 amended: such a request places no call and leaves the store as it
\* was; it is answered 400 when the telephony client is configured, and 500
\* "not configured" when it is not.
C7_BadNumberRejected ==
  [][(last'.op = "call_send" /\ last'.req.phone_number \in C7_NoPlus) =>
       /\ call_data_store' = call_data_store
       /\ nextId' = nextId
       /\ last'.placed = <<>>
       /\ last'.status =
            IF twilio_client /\ TWILIO_PHONE_NUMBER # None THEN 400 ELSE 500
    ]_vars

C7_Witness ==
  /\ last.op = "call_send"
  /\ last.req.phone_number \in C7_NoPlus
  /\ last.status = 400
  /\ call_data_store # <<>>

\* C8: without a telephony client or without an originating number every
\* /call/send request is answered 500 "Twilio client not configured", never
\* success, puts no entry and places no call.
C8_NotConfiguredFailsFast ==
  [][(last'.op = "call_send" /\ (~twilio_client \/ TWILIO_PHONE_NUMBER = None))
       => /\ last'.status = 500
          /\ last'.body = [detail |-> <<"Twilio client not configured">>]
          /\ last'.placed = <<>>
          /\ call_data_store' = call_data_store
          /\ nextId' = nextId
    ]_vars

C8_Witness ==
  /\ last.op = "call_send"
  /\ last.status = 500
  /\ twilio_client
  /\ TWILIO_PHONE_NUMBER = None
  /\ last.req.phone_number = "+15551234567"

\* an inbound message whose call was placed and acknowledged
C9_Placed ==
  /\ last.op = "sms_call_back"
  /\ last.req.fault = "none"
  /\ Len(last.placed) = 1
  /\ last.placed[1].sid # None

C10_IsSms == last.op \in {"sms_call_back", "sms_forward"}
C10_AttemptFailed ==
  \/ last.op = "sms_call_back" /\ last.placed # <<>>
       /\ last.placed[1].sid = None
  \/ last.op = "sms_forward" /\ last.forwarded # <<>>
       /\ last.forwarded[1].outcome \in {"timeout", "error"}
C10_AttemptSucceeded ==
  \/ last.op = "sms_call_back" /\ last.placed # <<>>
       /\ last.placed[1].sid # None
  \/ last.op = "sms_forward" /\ last.forwarded # <<>>
       /\ last.forwarded[1].outcome \notin {"timeout", "error"}
C10_Degraded ==
  /\ Len(last.body) = 1
  /\ last.body[1].verb = "Message"
  /\ last.body[1].body[1] = "Received your message: '"
  /\ last.body[1].body[2] = last.req.Body
C10_Normal ==
  /\ Len(last.body) = 1
  /\ last.body[1].verb = "Message"
  /\ last.body[1].body[1] \in
       {"Thanks for your message! I've received and processed: '",
        "Thanks for your message! I'm calling you now to read it back. Call SID: "}

\* C10 as stated: a failed placement or forward gives the degraded
\* acknowledgment quoting the text, a successful one the normal
\* acknowledgment, and only a failure of reply construction gives the
\* empty reply.
C10_EmptyOnlyOnReplyFailure ==
  C10_IsSms =>
     /\ last.body = <<>> => last.req.fault \in {"build", "serialize"}
     /\ (C10_AttemptFailed /\ last.req.fault = "none") => C10_Degraded
     /\ (C10_AttemptSucceeded /\ last.req.fault = "none") => C10_Normal

\* C10 amended: the reply is always well formed; it is the empty reply
\* exactly when a step outside the inner try fails: the NumMedia field is
\* present and not an integer (before any placement or forward is tried),
\* the reply cannot be serialised, or the not-configured reply cannot be
\* built; otherwise a failed placement or forward (or a reply that cannot be
\* built inside the try) gives the degraded acknowledgment quoting the
\* text, and a successful one the normal acknowledgment.
C10_ReplyAlwaysWellFormed ==
  C10_IsSms =>
     /\ last.status = 200
     /\ last.body = <<>> \/ C10_Degraded \/ C10_Normal
     /\ last.body = <<>> <=>
          \/ last.req.NumMedia = "abc"
          \/ last.req.fault = "serialize"
          \/ /\ last.op = "sms_call_back"
             /\ last.req.fault = "build"
             /\ ~(twilio_client /\ TWILIO_PHONE_NUMBER # None)
     /\ last.req.NumMedia = "abc" =>
          last.placed = <<>> /\ last.forwarded = <<>>
     /\ (C10_AttemptFailed /\ last.req.fault # "serialize") => C10_Degraded
     /\ (C10_AttemptSucceeded /\ last.req.fault = "build") => C10_Degraded
     /\ (C10_AttemptSucceeded /\ last.req.fault = "none") => C10_Normal

C10_Witness ==
  /\ last.op = "sms_forward"
  /\ last.req.NumMedia = "abc"
  /\ last.req.fault = "none"
  /\ last.body = <<>>

\* C11: an issued id is in the store until the first digit pass for it that
\* runs to its return, and only such a pass, for that very id, removes an
\* entry: a call with no digit pass (no greeting, or a menu that timed out)
\* keeps its entry in every later state.
C11_OnlyDigitPassRemoves ==
  [][ /\ \A id \in DOMAIN call_data_store :
            id \notin DOMAIN call_data_store'
              => /\ last'.op = "voice_input"
                 /\ last'.call_id = id
                 /\ ~last'.raised
      /\ \A id \in 1 .. (nextId' - 1) :
            id \notin digitPassed' => id \in DOMAIN call_data_store'
    ]_vars

C11_Witness ==
  /\ last.op = "voice_call"
  /\ last.lookup = "hit"
  /\ digitPassed # {}
  /\ last.call_id \notin digitPassed

\* C12: the greeting handler only reads the store: hit or miss, synthesis
\* success or failure, internal error, the store after the handler is the
\* store before it.
C12_GreetingReadsOnly ==
  [][last'.op = "voice_call" => call_data_store' = call_data_store]_vars

C12_Witness ==
  /\ last.op = "voice_call"
  /\ last.lookup = "hit"
  /\ last.raised
  /\ last.synth[1].outcome = "ok"
  /\ last.call_id \in DOMAIN call_data_store

\* the fields of a context
C13_Fields == {"sms_body", "from_number", "to_number", "message_sid"}

\* C13: whatever the order in which requests for distinct call ids are
\* handled, a request changes at most the entry of its own id (a put or a
\* delete for one id leaves every other entry as it was), the store holds
\* only whole contexts filed under the id they were made for, and a greeting
\* answers from the entry of its own id alone.
C13_NoInterference ==
  [][ /\ \A id \in DOMAIN call_data_store :
            id # last'.call_id
              => /\ id \in DOMAIN call_data_store'
                 /\ call_data_store'[id] = call_data_store[id]
      /\ \A id \in DOMAIN call_data_store' :
            /\ id \in DOMAIN call_data_store \/ id = last'.call_id
            /\ id \in 1 .. (nextId' - 1)
            /\ DOMAIN call_data_store'[id] = C13_Fields
            /\ call_data_store'[id].message_sid[2] = id
      /\ last'.op = "voice_call" =>
            /\ last'.lookup = "hit" <=> last'.call_id \in DOMAIN call_data_store
            /\ last'.lookup = "hit" =>
                 /\ last'.ctx = call_data_store[last'.call_id]
                 /\ last'.synth[1].text =
                      call_data_store[last'.call_id].sms_body
                 /\ (~last'.raised /\ last'.synth[1].outcome # "ok") =>
                      last'.body[1] =
                        SayText(call_data_store[last'.call_id].sms_body)
    ]_vars

C13_Witness ==
  /\ last.op = "voice_input"
  /\ ~last.raised
  /\ last.call_id = 1
  /\ 2 \in DOMAIN call_data_store
  /\ call_data_store[2].sms_body = "Bye"

\* C14: a successful /call/send stores the context under a call id that was
\* never issued before, asks for the call with a callback URL that embeds
\* that id, and returns that id with the provider's call sid: the id
\* stored, the id in the URL and the id returned are equal.
C14_OneIdThroughout ==
  [][(last'.op = "call_send" /\ last'.status = 200) =>
       LET id == last'.body.call_id IN
       /\ id \notin KnownIds
       /\ id \notin DOMAIN call_data_store
       /\ DOMAIN call_data_store' = DOMAIN call_data_store \cup {id}
       /\ call_data_store'[id].sms_body = last'.req.message
       /\ call_data_store'[id].to_number = last'.req.phone_number
       /\ call_data_store'[id].message_sid = <<"api_call_", id>>
       /\ Len(last'.placed) = 1
       /\ last'.placed[1].url = <<BaseUrl, "/webhook/voice/call/", id>>
       /\ last'.placed[1].to = last'.req.phone_number
       /\ last'.placed[1].sid \in Sids
       /\ last'.body.call_sid = last'.placed[1].sid
       /\ last'.body.success
    ]_vars

C14_Witness ==
  /\ last.op = "call_send"
  /\ last.status = 200
  /\ last.body.call_id = 2
  /\ last.body.call_sid = "CA2"
  /\ 1 \in DOMAIN call_data_store

\* the digit captures of a document, and the verbs that hand the call on
C15_Gathers(doc) == {i \in 1 .. Len(doc) : doc[i].verb = "Gather"}
C15_Terminal(doc) ==
  /\ EndsInHangup(doc)
  /\ \A i \in 1 .. Len(doc) : doc[i].verb \in {"Say", "Play", "Pause", "Hangup"}

C16_VoiceFailuresCaught ==
  last.op \in {"voice_call", "voice_input"} =>
     /\ last.status = 200
     /\ Len(last.body) >= 2
     /\ \A i \in 1 .. Len(last.body) :
           last.body[i].verb \in {"Say", "Play", "Pause", "Gather", "Hangup"}
     /\ EndsInHangup(last.body)
     /\ last.raised =>
          last.body =
            <<[verb |-> "Say", text |-> "Sorry, there was an error. Goodbye!",
               voice |-> "Polly.Emma"], HangupVerb>>
     /\ (last.op = "voice_call" /\ last.lookup = "hit" /\ ~last.raised)
          => HasGather(last.body)

C16_Witness ==
  /\ last.op = "voice_call"
  /\ last.raised
  /\ last.lookup = "hit"
  /\ last.synth[1].outcome = "transport"

\* the attempts of the last request that went out to a provider
C17_SynthRequests == {i \in 1 .. Len(last.synth) : last.synth[i].requested}

\* C17: nothing is retried: an initiator request makes at most one
\* call-placement request, a greeting at most one synthesis request and an
\* inbound-message request at most one forward (and at most one placement
\* and one synthesis request), whether the attempt succeeds or fails; a
\* request that gets as far as the attempt makes exactly one.
C17_NoRetry ==
  /\ Len(last.placed) <= 1
  /\ Len(last.synth) <= 1
  /\ Cardinality(C17_SynthRequests) <= 1
  /\ Len(last.forwarded) <= 1
  /\ (last.op \in {"call_send", "webhook_test"} /\ last.put # <<>>)
        => Len(last.placed) = 1
  /\ (last.op = "voice_call" /\ last.lookup = "hit") =>
        /\ Len(last.synth) = 1
        /\ last.synth[1].requested <=> ELEVENLABS_API_KEY
  /\ (last.op = "sms_forward" /\ last.req.NumMedia # "abc")
        => Len(last.forwarded) = 1
  /\ last.op \in {"voice_call", "voice_input"}
        => last.placed = <<>> /\ last.forwarded = <<>>

C17_Witness ==
  /\ last.op = "sms_forward"
  /\ Len(last.forwarded) = 1
  /\ last.forwarded[1].outcome = "timeout"
  /\ last.req.fault = "none"

\* the response the digit decides, whatever the store holds
C18_Expected(d) ==
  IF d = "1" THEN <<SayText("Goodbye!"), HangupVerb>>
  ELSE IF d = "2"
    THEN <<SayText("Thanks for picking up the phone dude!"),
           [verb |-> "Pause", length |-> 1],
           SayText("Have a great day!"), HangupVerb>>
  ELSE <<SayText("Invalid option. Goodbye!"), HangupVerb>>

\* C18: a digit pass for an id that is not in the store (never issued, or
\* already consumed) leaves the store as it was, and a digit pass in which
\* nothing fails returns the response its digit decides whether or not the
\* id is in the store.
C18_AbsentIdIsNoOp ==
  [][last'.op = "voice_input" =>
       LET d == IF last'.req.method = "GET" THEN last'.req.query
                ELSE last'.req.Digits
       IN
       /\ last'.call_id \notin DOMAIN call_data_store
            => call_data_store' = call_data_store
       /\ last'.req.fault = "none"
            => ~last'.raised /\ last'.body = C18_Expected(d)
    ]_vars

C18_Witness ==
  /\ last.op = "voice_input"
  /\ last.call_id = UnknownId
  /\ ~last.raised
  /\ last.req.method = "POST"
  /\ last.req.Digits = "2"
  /\ call_data_store # <<>>

\* a request of an initiator whose call-placement request failed
C19_PlacementFailed ==
  /\ last.op \in {"call_send", "webhook_test"}
  /\ last.placed # <<>>
  /\ last.placed[1].sid = None

\* C19 as stated: when the provider's call-placement request fails inside
\* an initiator (/call/send or /webhook/test), no entry for the call id that
\* request generated is in the store when the request completes.
C19_NoEntryWithoutCall ==
  C19_PlacementFailed => last.call_id \notin DOMAIN call_data_store

\* C19 amended: an initiator files the entry before it asks for the call
\* and does not take it back: when the placement request fails, the entry
\* for the id the request generated is in the store when the request
\* completes, under the id of the callback URL, and the request is answered
\* with the error (500 from /call/send, "Error making call" from
\* /webhook/test).
C19_EntryKeptWithoutCall ==
  C19_PlacementFailed =>
     /\ last.call_id \in DOMAIN call_data_store
     /\ last.placed[1].url = <<BaseUrl, "/webhook/voice/call/", last.call_id>>
     /\ call_data_store[last.call_id].to_number = last.placed[1].to
     /\ last.raised
     /\ last.op = "call_send" =>
          /\ last.status = 500
          /\ last.body.detail[1] = "Failed to initiate call: "
          /\ call_data_store[last.call_id].sms_body = last.req.message
     /\ last.op = "webhook_test" =>
          last.body[1] = "Error making call: "

C19_Witness ==
  /\ C19_PlacementFailed
  /\ last.op = "webhook_test"
  /\ last.call_id = 2
  /\ 1 \in digitPassed

\* C20: call ids are single-use: an id whose entry a digit pass deleted is
\* never put back (every put is under an id that was never issued), and a
\* later greeting for it is a miss answered with a terminal apology.
C20_IdsAreSingleUse ==
  [][ /\ \A id \in digitPassed : id \notin DOMAIN call_data_store'
      /\ \A id \in DOMAIN call_data_store' :
            id \notin DOMAIN call_data_store
              => id \notin KnownIds /\ id \notin digitPassed
      /\ (last'.op = "voice_call" /\ last'.call_id \in digitPassed) =>
            /\ last'.lookup = "miss"
            /\ last'.synth = <<>>
            /\ last'.body =
                 <<[verb |-> "Say", voice |-> "Polly.Emma",
                    text |-> IF last'.raised
                      THEN "Sorry, there was an error. Goodbye!"
                      ELSE "Sorry, there was an error processing your call."],
                   HangupVerb>>
    ]_vars

C20_Witness ==
  /\ last.op = "voice_call"
  /\ last.call_id = 1
  /\ 1 \in digitPassed
  /\ 2 \in DOMAIN call_data_store
  /\ ~last.raised

\* --------------------------------------------------------------- C21
\* C21: store entries are immutable: an initiator inserts under an id that
\* is not in the store at that moment (so no entry is overwritten), and an
\* entry that is in the store before and after a request has the same text,
\* origin number, destination number and source message id.
C21_EntriesImmutable ==
  [][ /\ \A id \in (DOMAIN call_data_store) \cap (DOMAIN call_data_store') :
            \A f \in C13_Fields :
               call_data_store'[id][f] = call_data_store[id][f]
      /\ (last'.op \in {"call_send", "webhook_test"} /\ last'.put # <<>>) =>
            /\ last'.put = <<last'.call_id>>
            /\ last'.call_id \notin DOMAIN call_data_store
            /\ last'.call_id \in DOMAIN call_data_store'
            /\ DOMAIN call_data_store' =
                 (DOMAIN call_data_store) \cup {last'.call_id}
    ]_vars

C21_Witness ==
  /\ last.op = "call_send"
  /\ last.call_id = 2
  /\ last.req.message = "Hello there"
  /\ DOMAIN call_data_store = {1, 2}
  /\ call_data_store[1].sms_body = "Bye"
  /\ call_data_store[2].sms_body = "Hello there"

\* --------------------------------------------------------------- C22
\* the digit handler coroutines that have returned
C22_Returned ==
  {i \in DOMAIN tasks : tasks[i].kind = "digit" /\ tasks[i].pc = "done"}

\* C22: digit webhooks for one call id, as the event loop can interleave
\* their statements, each return a terminal response; a handler in which
\* building the response did not fail returns the response its own digit
\* decides, and the entry is absent once it has returned; the membership
\* test followed by the delete never sends a handler to its error response
\* (only a failure to build the response does).
C22_DuplicateDigits ==
  \A i \in C22_Returned :
     LET t == tasks[i] IN
     /\ EndsInHangup(t.body)
     /\ ~HasGather(t.body)
     /\ t.raised => t.fault = "build"
     /\ t.fault = "none" =>
          /\ t.body = C18_Expected(IF t.Digits = None THEN "" ELSE t.Digits)
          /\ t.call_id \notin DOMAIN call_data_store

C22_Witness ==
  /\ C22_Returned = {1, 2}
  /\ tasks[1].call_id = tasks[2].call_id
  /\ tasks[1].stored # None /\ tasks[2].stored # None
  /\ tasks[1].fault = "none" /\ tasks[2].fault = "none"
  /\ tasks[1].Digits = "2" /\ tasks[2].Digits = "1"
  /\ tasks[1].call_id \notin DOMAIN call_data_store

\* --------------------------------------------------------------- C23
\* the greeting coroutines that have returned
C23_Returned ==
  {i \in DOMAIN tasks : tasks[i].kind = "greeting" /\ tasks[i].pc = "done"}

C23_TerminalError ==
  { <<[verb |-> "Say", voice |-> "Polly.Emma",
       text |-> "Sorry, there was an error processing your call."],
      HangupVerb>>,
    <<[verb |-> "Say", voice |-> "Polly.Emma",
       text |-> "Sorry, there was an error. Goodbye!"],
      HangupVerb>> }

\* the stored text, said or played, followed by the menu
C23_Greetings(id, text) ==
  {<<SayText(text)>> \o C5_MenuAfterPlayback(id)} \cup
  {<<[verb |-> "Play", url |-> <<BaseUrl, "/audio/", f>>]>>
      \o C5_MenuAfterPlayback(id) : f \in FileNames}

\* C23: a greeting webhook racing with a digit webhook for its call id,
\* as the event loop can interleave the greeting's membership test, read
\* and synthesis with the digit handler's delete, returns either the stored
\* text (said, or played from a synthesis of that very text) followed by the
\* menu, or a terminal error response that ends in a hangup; it presents
\* the menu only with the stored text, and never when the entry was already
\* gone as the request arrived.
C23_GreetingRace ==
  \A i \in C23_Returned :
     LET t == tasks[i] IN
     IF HasGather(t.body)
       THEN /\ t.stored # None
            /\ ~t.raised
            /\ t.body \in C23_Greetings(t.call_id, t.stored)
            /\ Len(t.synth) = 1
            /\ t.synth[1].text = t.stored
            /\ t.body[1].verb = "Play" <=> t.synth[1].url # NoUrl
       ELSE /\ t.body \in C23_TerminalError
            /\ EndsInHangup(t.body)

C23_Witness ==
  \E i \in C23_Returned, j \in C22_Returned :
     /\ tasks[i].call_id = tasks[j].call_id
     /\ tasks[i].gone
     /\ tasks[i].stored = "Bye"
     /\ tasks[i].body = <<SayText("Bye")>> \o C5_MenuAfterPlayback(tasks[i].call_id)
     /\ ~tasks[j].raised

====
